---- MODULE Spec2Model ----
(***************************************************************************)
(* Model of backend/comfyui_client.py: one call of                         *)
(* ComfyUIClient.generate_image, the engine (ComfyUI) it talks to, and     *)
(* what concurrent calls of the same instance (its peers) do to the state  *)
(* the call shares with them: the cache self._available_nodes and the      *)
(* event stream of self.client_id.  Every await of the coroutine is one    *)
(* action; the synchronous code that follows the await belongs to it.      *)
(* Further specifications over the same variables follow the builders and  *)
(* check_connection (SpecClient), the /generate route of backend/main.py   *)
(* (SpecRoute), MFluxClient under concurrent requests (SpecMflux) and the  *)
(* registry of websocket_endpoint (SpecWs).                                *)
(***************************************************************************)
EXTENDS Integers, Sequences, FiniteSets, TLC

\* ---------------------------------------------------------------- bounds
MaxJobs == 2             \* prompts the engine accepts in one behaviour
MaxProgress == 2         \* sampler steps an engine job reports
MaxInbox == 1            \* undelivered messages buffered by the socket
MaxRequests == 3         \* /generate requests served in one behaviour
MaxSockets == 3          \* connections made to /ws/{client_id}

JobIds == 1 .. MaxJobs

\* ------------------------------------------------------------- constants
\* line 399: random.randint(0, 2**31 - 1); the seeds a call is followed
\* with are the two ends of that range
MaxSeedValue == 2147483647
Seeds == {0, MaxSeedValue}

None == "None"
NodeTypes == {"UnetLoaderGGUF", "ModelSamplingFlux"}
Variants == {"gguf", "standard", "simple"}
FailKinds == {"rejected", "transport"}

\* the /generate requests of one process, and the MFluxClient objects the
\* process could come to hold (each request constructs at most one)
CallIds == 1 .. MaxRequests
Instances == 1 .. MaxRequests
NoCall == [pc |-> "idle", client |-> 0, future |-> "none", model |-> 0]
IdleWorker == [pc |-> "idle", call |-> 0]

\* the connections to /ws/{client_id} and the ids they connect with
SocketIds == 1 .. MaxSockets
ClientIds == {"tab-a", "tab-b"}
NoSocket == [pc |-> "none", client_id |-> None]

\* self._available_nodes: None (line 20) or the catalog stored at line 39
Unset == [cached |-> FALSE, nodes |-> {}]
Cached(nodes) == [cached |-> TRUE, nodes |-> nodes]

\* an exception: what failed, at which await, with which engine detail
NoError == [kind |-> "none", at |-> "none", detail |-> 0]
Error(k, a, d) == [kind |-> k, at |-> a, detail |-> d]

\* messages of the event stream /ws?clientId= (lines 481-499)
Null == "null"
SomeNode == "KSampler"
NoMsg == [type |-> "none", job |-> 0, value |-> 0, node |-> None]
Progress(j, v) == [type |-> "progress", job |-> j, value |-> v, node |-> None]
Executing(j, n) == [type |-> "executing", job |-> j, value |-> 0, node |-> n]
ExecutionError(j) ==
    [type |-> "execution_error", job |-> j, value |-> 0, node |-> None]
Closed == [type |-> "closed", job |-> 0, value |-> 0, node |-> None]

\* the detail the engine gives with the execution_error of job j
Detail(j) == j

\* progress_callback(value, max), with the job the event belonged to
NoArgs == [job |-> 0, value |-> 0, max |-> 0]

\* /history/{id}: the node outputs recorded for a job
NoImages == [has_images |-> FALSE, images |-> <<>>]
Images(fs) == [has_images |-> TRUE, images |-> fs]
NoAnswer == [answered |-> FALSE, recorded |-> FALSE, outputs |-> <<>>]
NotRecorded == [answered |-> TRUE, recorded |-> FALSE, outputs |-> <<>>]
Recorded(o) == [answered |-> TRUE, recorded |-> TRUE, outputs |-> o]
OutputShapes ==
    { <<NoImages>>,
      <<NoImages, Images(<<"a.png", "b.png">>)>>,
      <<Images(<<"b.png">>), Images(<<"a.png">>)>>,
      <<Images(<<>>), Images(<<"a.png">>)>> }

\* what /history/{id} can answer for a job: the job is not a key of the
\* answer, or it is, with the node outputs recorded for it
HistoryAnswers == {NotRecorded} \cup {Recorded(o) : o \in OutputShapes}

\* /view: the bytes the engine serves for a file name
ImageBytes(filename) == <<"bytes of", filename>>
NoResult == [bytes |-> <<>>, filename |-> None, seed |-> 0]

NoWorkflow == [variant |-> "none", seed |-> 0]

\* self.client_id (line 19): drawn once by the constructor
client_id == "uuid4-of-instance"

\* check_connection before it is called
NoOutcome == [kind |-> "none", status |-> 0]
NoCheck == [pc |-> "idle", outcome |-> NoOutcome, returned |-> FALSE]

\* the /generate route before it is called
NoRequest == [prompt |-> None]
NoResponse == [returned |-> FALSE]
NoArguments == [prompt |-> None]

VARIABLES
    available_nodes,   \* self._available_nodes
    engineNodes,       \* node types the engine lists in /object_info
    peerFetching,      \* a peer call is inside lines 36-39
    pc,                \* the await generate_image is suspended at
    seed,              \* the resolved seed (line 399)
    progress_callback, \* whether a callback was passed
    has_gguf_loader,   \* local of generate_image (line 402)
    has_flux_sampling, \* local of generate_image (line 403)
    workflow_type,     \* local of generate_image
    workflow,          \* local of generate_image: the graph last built
    prompt_id,         \* local of generate_image; 0 while unbound
    submitted,         \* the graphs passed to queue_prompt, in order
    firstError,        \* the exception bound to e at line 442
    error,             \* the exception generate_image raised
    nJobs,             \* prompts accepted by the engine so far
    jobState,          \* per job of the engine: its execution state
    jobProgress,       \* per job: sampler steps reported so far
    inbox,             \* messages the socket has not yet yielded
    msg,               \* loop variable of line 481: the last message read
    callback_args,     \* arguments of the last progress_callback call
    history_id,        \* the id asked of /history (line 502); 0 before
    history,           \* local of generate_image (line 502)
    image_info,        \* local of generate_image (line 512)
    result,            \* what generate_image returned
    ws_client_id,      \* the clientId of the socket URL (line 479)
    cancelled,         \* the caller has cancelled the task of the call
    check,             \* a check_connection call: position and result
    built,             \* the builder calls made so far, with their graphs
    OPENROUTER_API_KEY, \* main.py global (line 30)
    request,           \* the GenerateRequest the route was called with
    route_pc,          \* the await the /generate route is suspended at
    enhanced_prompt,   \* local of the route (line 202)
    enhancement,       \* how the await of line 214 ended, "none" before it
    final_prompt,      \* local of the route (line 201)
    generate_args,     \* what the route passed to client.generate_image
    response,          \* the GenerateResponse the route returned
    mflux_client,      \* main.py global (line 51): 0 is None, else the object
    instances,         \* MFluxClient objects constructed so far (line 57)
    self_model,        \* self._model of each MFluxClient: 0 is None
    executor,          \* work queue of self._executor of each MFluxClient
    worker,            \* the one worker thread of each self._executor
    calls,             \* the /generate requests from line 226 on
    flux1_built,       \* Flux1 objects constructed so far (line 38)
    active_connections, \* main.py global (line 61): 0 is no entry
    sockets            \* the connections of websocket_endpoint

vars == <<available_nodes, engineNodes, peerFetching, pc, seed,
          progress_callback, has_gguf_loader, has_flux_sampling,
          workflow_type, workflow, prompt_id, submitted, firstError, error,
          nJobs, jobState, jobProgress, inbox, msg, callback_args,
          history_id, history, image_info, result, ws_client_id, cancelled,
          check,
          built, OPENROUTER_API_KEY, request, route_pc, enhanced_prompt,
          enhancement, final_prompt, generate_args, response,
          mflux_client, instances,
          self_model, executor, worker, calls, flux1_built,
          active_connections,
          sockets>>

probeVars == <<available_nodes, engineNodes, peerFetching>>
inputVars == <<seed, progress_callback>>
flagVars == <<has_gguf_loader, has_flux_sampling>>
cascadeVars == <<workflow_type, workflow, submitted, firstError>>
engineVars == <<nJobs, jobState, jobProgress>>
monitorVars == <<inbox, msg, callback_args>>
fetchVars == <<history_id, history, image_info, result>>
ghostVars == <<ws_client_id, cancelled>>
clientVars == <<check, built>>
routeVars == <<OPENROUTER_API_KEY, request, route_pc, enhanced_prompt,
               enhancement,
               final_prompt, generate_args, response>>
mfluxVars == <<mflux_client, instances, self_model, executor, worker, calls,
               flux1_built>>
wsVars == <<active_connections, sockets>>
serverVars == <<mfluxVars, wsVars>>
unitVars == <<clientVars, routeVars, serverVars>>
generateVars == <<probeVars, pc, inputVars, flagVars, cascadeVars, prompt_id,
                  error, engineVars, monitorVars, fetchVars, ghostVars>>

\* ------------------------------------------------------- pure operators
\* has_node (lines 44-47): membership in what get_available_nodes returned
has_node(node_type, nodes) == node_type \in nodes

\* the three builders, by what distinguishes their graphs here
create_flux2_workflow_gguf(s) == [variant |-> "gguf", seed |-> s]
create_flux2_workflow(s) == [variant |-> "standard", seed |-> s]

\* as create_flux2_workflow_simple, called without seed=seed: the builder
\* then draws a seed of its own (lines 265-266)
create_flux2_workflow_simple_Reseeded(s) ==
    [variant |-> "simple", seed |-> MaxSeedValue - s]

create_flux2_workflow_simple(s) == [variant |-> "simple", seed |-> s]

\* as SelectWorkflowType, with the two tests of lines 409 and 419 swapped
SelectWorkflowType_StandardFirst(gguf, flux) ==
    IF flux THEN "standard" ELSE IF gguf THEN "gguf" ELSE "simple"

\* lines 408-438: Priority GGUF > Standard > Simple
SelectWorkflowType(gguf, flux) ==
    IF gguf THEN "gguf" ELSE IF flux THEN "standard" ELSE "simple"

Build(v, s) ==
    CASE v = "gguf" -> create_flux2_workflow_gguf(s)
      [] v = "standard" -> create_flux2_workflow(s)
      [] OTHER -> create_flux2_workflow_simple(s)

\* as FirstFallback, without the test of has_flux_sampling at line 444
FirstFallback_NoCapabilityTest(wt, flux) ==
    IF wt = "gguf" THEN "standard"
    ELSE IF wt = "standard" THEN "simple"
    ELSE "raise"

\* as FirstFallback, with the branch of lines 444-464 left out
FirstFallback_StraightToSimple(wt, flux) ==
    IF wt \in {"gguf", "standard"} THEN "simple" ELSE "raise"

\* lines 442-476: what the handler of the first failed submission does
FirstFallback(wt, flux) ==
    IF wt = "gguf" /\ flux THEN "standard"
    ELSE IF wt \in {"gguf", "standard"} THEN "simple"
    ELSE "raise"

\* ----------------------------------------------------------------- Init
\* no check_connection call and no builder call has been made
ClientIdle ==
    /\ check = NoCheck
    /\ built = <<>>

\* the /generate route has not been called
RouteIdle ==
    /\ OPENROUTER_API_KEY = ""
    /\ request = NoRequest
    /\ route_pc = "idle"
    /\ enhanced_prompt = None
    /\ enhancement = "none"
    /\ final_prompt = None
    /\ generate_args = NoArguments
    /\ response = NoResponse

\* no request has reached line 226: no MFluxClient exists
MfluxIdle ==
    /\ mflux_client = 0
    /\ instances = 0
    /\ self_model = [o \in Instances |-> 0]
    /\ executor = [o \in Instances |-> <<>>]
    /\ worker = [o \in Instances |-> IdleWorker]
    /\ calls = [r \in CallIds |-> NoCall]
    /\ flux1_built = 0

\* main.py line 61: nobody has connected
WsIdle ==
    /\ active_connections = [c \in ClientIds |-> 0]
    /\ sockets = [s \in SocketIds |-> NoSocket]

\* The instance may be new, or an earlier call may have filled its cache
\* with the engine's catalog.
Init ==
    /\ engineNodes \in SUBSET NodeTypes
    /\ available_nodes \in {Unset, Cached(engineNodes)}
    /\ peerFetching = FALSE
    /\ pc = "idle"
    /\ seed = 0
    /\ progress_callback = FALSE
    /\ has_gguf_loader = FALSE
    /\ has_flux_sampling = FALSE
    /\ workflow_type = None
    /\ workflow = NoWorkflow
    /\ prompt_id = 0
    /\ submitted = <<>>
    /\ firstError = NoError
    /\ error = NoError
    /\ nJobs = 0
    /\ jobState = [j \in JobIds |-> "none"]
    /\ jobProgress = [j \in JobIds |-> 0]
    /\ inbox = <<>>
    /\ msg = NoMsg
    /\ callback_args = NoArgs
    /\ history_id = 0
    /\ history = NoAnswer
    /\ image_info = None
    /\ result = NoResult
    /\ ws_client_id = None
    /\ cancelled = FALSE
    /\ ClientIdle
    /\ RouteIdle
    /\ MfluxIdle
    /\ WsIdle

\* ----------------------------------------------------- generate_image
\* lines 381-399: the call starts; an unset seed is drawn at random
Start ==
    /\ pc = "idle"
    /\ seed' \in Seeds
    /\ progress_callback' \in BOOLEAN
    /\ pc' = "has_gguf"
    /\ UNCHANGED <<unitVars, ghostVars, probeVars, flagVars, cascadeVars,
                   prompt_id, error, engineVars, monitorVars, fetchVars>>

\* lines 33-34 under has_node("UnetLoaderGGUF") (line 402): the cache is set
\* and answers without a request; otherwise the request is sent (line 38)
HasGgufLoader ==
    /\ pc = "has_gguf"
    /\ IF available_nodes # Unset
       THEN /\ has_gguf_loader' =
                   has_node("UnetLoaderGGUF", available_nodes.nodes)
            /\ pc' = "has_flux"
       ELSE /\ pc' = "fetch_gguf"
            /\ UNCHANGED has_gguf_loader
    /\ UNCHANGED <<unitVars, ghostVars, probeVars, inputVars,
                   has_flux_sampling, cascadeVars, prompt_id, error,
                   engineVars, monitorVars, fetchVars>>

\* lines 38-40: /object_info answers; the catalog is stored and returned
FetchGgufOk ==
    /\ pc = "fetch_gguf"
    /\ available_nodes' = Cached(engineNodes)
    /\ has_gguf_loader' = has_node("UnetLoaderGGUF", engineNodes)
    /\ pc' = "has_flux"
    /\ UNCHANGED <<unitVars, ghostVars, engineNodes, peerFetching, inputVars,
                   has_flux_sampling, cascadeVars, prompt_id, error,
                   engineVars, monitorVars, fetchVars>>

\* lines 41-42: the request fails; {} is returned and nothing is stored
FetchGgufFail ==
    /\ pc = "fetch_gguf"
    /\ has_gguf_loader' = has_node("UnetLoaderGGUF", {})
    /\ pc' = "has_flux"
    /\ UNCHANGED <<unitVars, ghostVars, probeVars, inputVars,
                   has_flux_sampling, cascadeVars, prompt_id, error,
                   engineVars, monitorVars, fetchVars>>

\* line 47 on a catalog that is no container: `node_type in None` raises
TypeErrorOfHasNode == Error("TypeError", "has_node", 0)

\* lines 38-40 and 47: /object_info answers with the JSON body null; None is
\* stored and returned, and the membership test of has_node raises, under
\* line 402 outside every try of generate_image
FetchGgufNull ==
    /\ pc = "fetch_gguf"
    /\ available_nodes' = Unset
    /\ error' = TypeErrorOfHasNode
    /\ pc' = "failed"
    /\ UNCHANGED <<unitVars, ghostVars, engineNodes, peerFetching, inputVars,
                   flagVars, cascadeVars, prompt_id, engineVars, monitorVars,
                   fetchVars>>

\* queue_prompt (lines 346-357): the graph is posted with self.client_id
queue_prompt(w, at) ==
    /\ workflow' = w
    /\ submitted' = Append(submitted, w)
    /\ pc' = at

\* lines 405-441: pick the variant, build it and submit it
SelectAndSubmit(flux) ==
    LET wt == SelectWorkflowType(has_gguf_loader, flux) IN
    /\ has_flux_sampling' = flux
    /\ workflow_type' = wt
    /\ queue_prompt(Build(wt, seed), "queue_first")
    /\ UNCHANGED <<has_gguf_loader, firstError>>

\* has_node("ModelSamplingFlux") (line 403) answered from the cache, then
\* lines 405-441
HasFluxSampling ==
    /\ pc = "has_flux"
    /\ IF available_nodes # Unset
       THEN SelectAndSubmit(has_node("ModelSamplingFlux",
                                     available_nodes.nodes))
       ELSE /\ pc' = "fetch_flux"
            /\ UNCHANGED <<flagVars, cascadeVars>>
    /\ UNCHANGED <<unitVars, ghostVars, probeVars, inputVars, prompt_id,
                   error, engineVars, monitorVars, fetchVars>>

\* lines 38-40 under line 403, then lines 405-441
FetchFluxOk ==
    /\ pc = "fetch_flux"
    /\ available_nodes' = Cached(engineNodes)
    /\ SelectAndSubmit(has_node("ModelSamplingFlux", engineNodes))
    /\ UNCHANGED <<unitVars, ghostVars, engineNodes, peerFetching, inputVars,
                   prompt_id, error, engineVars, monitorVars, fetchVars>>

\* lines 41-42 under line 403, then lines 405-441
FetchFluxFail ==
    /\ pc = "fetch_flux"
    /\ SelectAndSubmit(has_node("ModelSamplingFlux", {}))
    /\ UNCHANGED <<unitVars, ghostVars, probeVars, inputVars, prompt_id,
                   error, engineVars, monitorVars, fetchVars>>

\* lines 38-40 and 47 under line 403: the body is the JSON null
FetchFluxNull ==
    /\ pc = "fetch_flux"
    /\ available_nodes' = Unset
    /\ error' = TypeErrorOfHasNode
    /\ pc' = "failed"
    /\ UNCHANGED <<flagVars, cascadeVars>>
    /\ UNCHANGED <<unitVars, ghostVars, engineNodes, peerFetching, inputVars,
                   prompt_id, engineVars, monitorVars, fetchVars>>

\* the awaits of queue_prompt in generate_image (lines 441, 454, 464, 474)
QueueSites == {"queue_first", "queue_std_fb", "queue_simple_fb2",
               "queue_simple_fb"}

\* line 350: the client_id of the payload posted with workflow w
PromptPayload(w) == [prompt |-> w, client_id |-> client_id]

\* line 479: the clientId of the socket URL
WsClientId_Fresh == "uuid4-of-connection"

WsClientId == client_id

\* lines 358-361 with a prompt_id in the answer: the engine has queued the
\* job, and generate_image goes on to lines 479-480
Accepted ==
    /\ pc \in QueueSites
    /\ nJobs < MaxJobs
    /\ nJobs' = nJobs + 1
    /\ jobState' = [jobState EXCEPT ![nJobs + 1] = "queued"]
    /\ prompt_id' = nJobs + 1
    /\ ws_client_id' = WsClientId
    /\ pc' = "ws_connect"
    /\ UNCHANGED <<unitVars, cancelled, probeVars, inputVars, flagVars,
                   cascadeVars,
                   error, jobProgress, monitorVars, fetchVars>>

\* where the handler of lines 442-476 goes after the first failure
AfterFirstFailure(e) ==
    LET next == FirstFallback(workflow_type, has_flux_sampling) IN
    CASE next = "standard" ->
           /\ queue_prompt(create_flux2_workflow(seed), "queue_std_fb")
           /\ UNCHANGED error
      [] next = "simple" ->
           /\ queue_prompt(create_flux2_workflow_simple(seed),
                           "queue_simple_fb")
           /\ UNCHANGED error
      [] OTHER ->
           \* line 476: raise e
           /\ error' = e
           /\ pc' = "failed"
           /\ UNCHANGED <<workflow, submitted>>

\* queue_prompt raises (line 360, or the request itself fails) at line 441:
\* the handler of lines 442-476
FirstFailed ==
    /\ pc = "queue_first"
    /\ \E k \in FailKinds :
          /\ firstError' = Error(k, workflow.variant, 0)
          /\ AfterFirstFailure(Error(k, workflow.variant, 0))
    /\ UNCHANGED <<unitVars, ghostVars, probeVars, inputVars, flagVars,
                   workflow_type, prompt_id, engineVars, monitorVars,
                   fetchVars>>

\* queue_prompt raises at line 454: the bare except of lines 455-464
StandardFallbackFailed ==
    /\ pc = "queue_std_fb"
    /\ queue_prompt(create_flux2_workflow_simple(seed), "queue_simple_fb2")
    /\ UNCHANGED <<unitVars, ghostVars, probeVars, inputVars, flagVars,
                   workflow_type, firstError, prompt_id, error, engineVars,
                   monitorVars, fetchVars>>

\* the exception that leaves generate_image when queue_prompt raises
\* exception e at line 464 or 474: these awaits are inside handlers, no
\* try encloses them, so e itself propagates
RaisedBySimpleFallback(e) == e

\* queue_prompt raises at line 464 or 474
SimpleFallbackFailed ==
    /\ pc \in {"queue_simple_fb", "queue_simple_fb2"}
    /\ \E k \in FailKinds :
          error' = RaisedBySimpleFallback(Error(k, workflow.variant, 0))
    /\ pc' = "failed"
    /\ UNCHANGED <<unitVars, ghostVars, probeVars, inputVars, flagVars,
                   cascadeVars, prompt_id, engineVars, monitorVars,
                   fetchVars>>

\* line 480: the socket /ws?clientId=self.client_id is connected
WsConnected ==
    /\ pc = "ws_connect"
    /\ pc' = "receiving"
    /\ UNCHANGED <<unitVars, ghostVars, probeVars, inputVars, flagVars,
                   cascadeVars, prompt_id, error, engineVars, monitorVars,
                   fetchVars>>

\* line 480 raises: the connection cannot be made
WsConnectFailed ==
    /\ pc = "ws_connect"
    /\ error' = Error("transport", "ws_connect", 0)
    /\ pc' = "failed"
    /\ UNCHANGED <<unitVars, ghostVars, probeVars, inputVars, flagVars,
                   cascadeVars, prompt_id, engineVars, monitorVars,
                   fetchVars>>

\* as MonitorStep, with the test of line 493 left out: every executing
\* message ends the loop
MonitorStep_AnyExecutingBreaks(m) ==
    CASE m.type = "progress" -> "callback"
      [] m.type = "executing" -> "break"
      [] m.type = "execution_error" -> "raise"
      [] OTHER -> "end"

\* as MonitorStep, with the break of line 495 left out
MonitorStep_NoBreak(m) ==
    CASE m.type = "progress" -> "callback"
      [] m.type = "executing" -> "continue"
      [] m.type = "execution_error" -> "raise"
      [] OTHER -> "end"

\* as MonitorStep, with the branch of lines 497-499 left out
MonitorStep_ErrorIgnored(m) ==
    CASE m.type = "progress" -> "callback"
      [] m.type = "executing" /\ m.node = Null -> "break"
      [] m.type = "executing" -> "continue"
      [] m.type = "execution_error" -> "continue"
      [] OTHER -> "end"

\* lines 482-499: what the loop body does with a message.  It reads the
\* type and data.node only; the prompt_id of the message is not looked at.
MonitorStep(m) ==
    CASE m.type = "progress" -> "callback"
      [] m.type = "executing" /\ m.node = Null -> "break"
      [] m.type = "executing" -> "continue"
      [] m.type = "execution_error" -> "raise"
      [] OTHER -> "end"

\* as RaiseExecutionError, with the receive loop inside the try of line
\* 440, so that the handler of lines 465-474 absorbs the exception
RaiseExecutionError_Absorbed(m) ==
    /\ inbox' = <<>>
    /\ workflow' = create_flux2_workflow_simple(seed)
    /\ submitted' = Append(submitted, create_flux2_workflow_simple(seed))
    /\ pc' = "queue_simple_fb"
    /\ UNCHANGED <<workflow_type, firstError, error, callback_args,
                   history_id>>

\* line 499: the execution_error message m is raised as an exception; the
\* with blocks of lines 479-480 close the socket
RaiseExecutionError(m) ==
    /\ inbox' = <<>>
    /\ error' = Error("execution", "receiving", Detail(m.job))
    /\ pc' = "failed"
    /\ UNCHANGED <<cascadeVars, callback_args, history_id>>

\* the loop is left (line 495, or the async for ends): the with blocks close
\* the socket and line 502 asks for the history of prompt_id
LeaveLoop ==
    /\ inbox' = <<>>
    /\ history_id' = prompt_id
    /\ pc' = "get_history"
    /\ UNCHANGED <<cascadeVars, error, callback_args>>

\* lines 481-499: one turn of the receive loop
Receive ==
    /\ pc = "receiving"
    /\ inbox # <<>>
    /\ msg' = Head(inbox)
    /\ LET step == MonitorStep(Head(inbox)) IN
       CASE step = "callback" ->
              \* lines 486-490
              /\ inbox' = Tail(inbox)
              /\ callback_args' =
                    IF progress_callback
                    THEN [job |-> msg'.job, value |-> msg'.value,
                          max |-> MaxProgress]
                    ELSE callback_args
              /\ UNCHANGED <<cascadeVars, pc, error, history_id>>
         [] step = "continue" ->
              /\ inbox' = Tail(inbox)
              /\ UNCHANGED <<cascadeVars, pc, error, callback_args,
                             history_id>>
         [] step = "break" -> LeaveLoop
         [] step = "raise" -> RaiseExecutionError(msg')
         [] OTHER -> LeaveLoop
    /\ UNCHANGED <<unitVars, ghostVars, probeVars, inputVars, flagVars,
                   prompt_id, engineVars, history, image_info, result>>

\* lines 510-511: the first node output that has an images entry, or 0
RECURSIVE FirstWithImages(_, _)
FirstWithImages(outputs, i) ==
    IF i > Len(outputs) THEN 0
    ELSE IF outputs[i].has_images THEN i
    ELSE FirstWithImages(outputs, i + 1)

\* as LookupError, without the test of line 504: line 507 then raises
LookupError_NoKeyTest(h) ==
    LET i == FirstWithImages(h.outputs, 1) IN
    IF ~h.recorded THEN Error("KeyError", "get_history", 0)
    ELSE IF i = 0 THEN Error("no image found", "get_history", 0)
    ELSE IF h.outputs[i].images = <<>>
         THEN Error("IndexError", "get_history", 0)
    ELSE NoError

\* lines 504-517 and 531 on the history answer h: the exception raised, or
\* NoError when an image entry was found
LookupError(h) ==
    LET i == FirstWithImages(h.outputs, 1) IN
    IF ~h.recorded THEN Error("no history found", "get_history", 0)
    ELSE IF i = 0 THEN Error("no image found", "get_history", 0)
    ELSE IF h.outputs[i].images = <<>>
         THEN Error("IndexError", "get_history", 0)
    ELSE NoError

\* as LookupImage, taking [-1] instead of [0] at line 512
LookupImage_LastEntry(h) ==
    LET images == h.outputs[FirstWithImages(h.outputs, 1)].images
    IN images[Len(images)]

\* line 512: output["images"][0] of the first node that has images
LookupImage(h) == h.outputs[FirstWithImages(h.outputs, 1)].images[1]

\* lines 502-517: /history/{prompt_id} answers with h
HistoryReturned ==
    /\ pc = "get_history"
    /\ \E h \in HistoryAnswers :
          /\ history' = h
          /\ IF LookupError(h) # NoError
             THEN /\ error' = LookupError(h)
                  /\ pc' = "failed"
                  /\ UNCHANGED image_info
             ELSE /\ image_info' = LookupImage(h)
                  /\ pc' = "get_image"
                  /\ UNCHANGED error
    /\ UNCHANGED <<unitVars, ghostVars, probeVars, inputVars, flagVars,
                   cascadeVars, prompt_id, engineVars, monitorVars,
                   history_id, result>>

\* line 502 raises: the history request fails
HistoryFailed ==
    /\ pc = "get_history"
    /\ error' = Error("transport", "get_history", 0)
    /\ pc' = "failed"
    /\ UNCHANGED <<unitVars, ghostVars, probeVars, inputVars, flagVars,
                   cascadeVars, prompt_id, engineVars, monitorVars,
                   fetchVars>>

\* lines 513-529: /view answers with the bytes; the result is returned
ImageReturned ==
    /\ pc = "get_image"
    /\ result' = [bytes |-> ImageBytes(image_info), filename |-> image_info,
                  seed |-> seed]
    /\ pc' = "done"
    /\ UNCHANGED <<unitVars, ghostVars, probeVars, inputVars, flagVars,
                   cascadeVars, prompt_id, error, engineVars, monitorVars,
                   history_id, history, image_info>>

\* line 513 raises: the download fails
ImageFailed ==
    /\ pc = "get_image"
    /\ error' = Error("transport", "get_image", 0)
    /\ pc' = "failed"
    /\ UNCHANGED <<unitVars, ghostVars, probeVars, inputVars, flagVars,
                   cascadeVars, prompt_id, engineVars, monitorVars,
                   fetchVars>>

\* ----------------------------------------------------------- peer calls
\* a concurrent call of the instance passes line 33 while the cache is
\* unset and sends its own /object_info request
PeerHasNode ==
    /\ available_nodes = Unset
    /\ ~peerFetching
    /\ peerFetching' = TRUE
    /\ UNCHANGED <<unitVars, ghostVars, available_nodes, engineNodes, pc,
                   inputVars, flagVars, cascadeVars, prompt_id, error,
                   engineVars, monitorVars, fetchVars>>

\* lines 38-40 in the peer: its request answers and it stores the catalog
PeerFetchOk ==
    /\ peerFetching
    /\ peerFetching' = FALSE
    /\ available_nodes' = Cached(engineNodes)
    /\ UNCHANGED <<unitVars, ghostVars, engineNodes, pc, inputVars, flagVars,
                   cascadeVars, prompt_id, error, engineVars, monitorVars,
                   fetchVars>>

\* lines 41-42 in the peer: its request fails
PeerFetchFail ==
    /\ peerFetching
    /\ peerFetching' = FALSE
    /\ UNCHANGED <<unitVars, ghostVars, available_nodes, engineNodes, pc,
                   inputVars, flagVars, cascadeVars, prompt_id, error,
                   engineVars, monitorVars, fetchVars>>

\* lines 346-361 in the peer: the engine accepts a prompt that a concurrent
\* call posted with the same self.client_id
PeerAccepted ==
    /\ nJobs < MaxJobs
    /\ nJobs' = nJobs + 1
    /\ jobState' = [jobState EXCEPT ![nJobs + 1] = "queued"]
    /\ UNCHANGED <<unitVars, ghostVars, probeVars, pc, inputVars, flagVars,
                   cascadeVars, prompt_id, error, jobProgress, monitorVars,
                   fetchVars>>

\* ------------------------------------------------------------- engine
\* the socket of the call is connected and the engine has not closed it
Open ==
    /\ pc = "receiving"
    /\ ws_client_id = PromptPayload(workflow).client_id
    /\ \A i \in 1 .. Len(inbox) : inbox[i] # Closed

\* the engine sends a message about a job to the sockets opened with the
\* client id that posted it; all calls of the instance use the same one
\* (lines 19, 350, 480)
Broadcast(m) ==
    IF Open
    THEN /\ Len(inbox) < MaxInbox
         /\ inbox' = Append(inbox, m)
    ELSE UNCHANGED inbox

\* a queued job starts: executing with the first node.  The engine takes
\* the prompts off its queue one at a time, in the order it accepted them.
EngineExecuting(j) ==
    /\ jobState[j] = "queued"
    /\ \A k \in 1 .. j - 1 : jobState[k] \in {"finished", "errored"}
    /\ jobState' = [jobState EXCEPT ![j] = "running"]
    /\ Broadcast(Executing(j, SomeNode))
    /\ UNCHANGED <<unitVars, ghostVars, probeVars, pc, inputVars, flagVars,
                   cascadeVars, prompt_id, error, nJobs, jobProgress, msg,
                   callback_args, fetchVars>>

\* the sampler of a running job reports a step
EngineProgress(j) ==
    /\ jobState[j] = "running"
    /\ jobProgress[j] < MaxProgress
    /\ jobProgress' = [jobProgress EXCEPT ![j] = @ + 1]
    /\ Broadcast(Progress(j, jobProgress[j] + 1))
    /\ UNCHANGED <<unitVars, ghostVars, probeVars, pc, inputVars, flagVars,
                   cascadeVars, prompt_id, error, nJobs, jobState, msg,
                   callback_args, fetchVars>>

\* a running job ends: executing with node = null
EngineFinished(j) ==
    /\ jobState[j] = "running"
    /\ jobState' = [jobState EXCEPT ![j] = "finished"]
    /\ jobProgress' = [jobProgress EXCEPT ![j] = 0]
    /\ Broadcast(Executing(j, Null))
    /\ UNCHANGED <<unitVars, ghostVars, probeVars, pc, inputVars, flagVars,
                   cascadeVars, prompt_id, error, nJobs, msg, callback_args,
                   fetchVars>>

\* a job fails while it runs: execution_error
EngineExecutionError(j) ==
    /\ jobState[j] = "running"
    /\ jobState' = [jobState EXCEPT ![j] = "errored"]
    /\ jobProgress' = [jobProgress EXCEPT ![j] = 0]
    /\ Broadcast(ExecutionError(j))
    /\ UNCHANGED <<unitVars, ghostVars, probeVars, pc, inputVars, flagVars,
                   cascadeVars, prompt_id, error, nJobs, msg, callback_args,
                   fetchVars>>

\* the engine (or the network) closes the socket of the call
EngineClose ==
    /\ Open
    /\ Len(inbox) < MaxInbox
    /\ inbox' = Append(inbox, Closed)
    /\ UNCHANGED <<unitVars, ghostVars, probeVars, pc, inputVars, flagVars,
                   cascadeVars, prompt_id, error, engineVars, msg,
                   callback_args, fetchVars>>

Next ==
    \/ Start
    \/ HasGgufLoader
    \/ FetchGgufOk
    \/ FetchGgufFail
    \/ FetchGgufNull
    \/ HasFluxSampling
    \/ FetchFluxOk
    \/ FetchFluxFail
    \/ FetchFluxNull
    \/ Accepted
    \/ FirstFailed
    \/ StandardFallbackFailed
    \/ SimpleFallbackFailed
    \/ WsConnected
    \/ WsConnectFailed
    \/ Receive
    \/ HistoryReturned
    \/ HistoryFailed
    \/ ImageReturned
    \/ ImageFailed
    \/ PeerHasNode
    \/ PeerFetchOk
    \/ PeerFetchFail
    \/ PeerAccepted
    \/ EngineClose
    \/ \E j \in JobIds :
          \/ EngineExecuting(j)
          \/ EngineProgress(j)
          \/ EngineFinished(j)
          \/ EngineExecutionError(j)

Spec == Init /\ [][Next]_vars

\* ------------------------------------------------------ fair scheduling
\* the steps of generate_image itself: the event loop resumes the call when
\* the request it awaits has an outcome or a message is ready to be read
CallNext ==
    \/ Start
    \/ HasGgufLoader
    \/ FetchGgufOk
    \/ FetchGgufFail
    \/ FetchGgufNull
    \/ HasFluxSampling
    \/ FetchFluxOk
    \/ FetchFluxFail
    \/ FetchFluxNull
    \/ Accepted
    \/ FirstFailed
    \/ StandardFallbackFailed
    \/ SimpleFallbackFailed
    \/ WsConnected
    \/ WsConnectFailed
    \/ Receive
    \/ HistoryReturned
    \/ HistoryFailed
    \/ ImageReturned
    \/ ImageFailed

\* the steps of the engine on the jobs it has accepted
EngineNext ==
    \E j \in JobIds :
       \/ EngineExecuting(j)
       \/ EngineProgress(j)
       \/ EngineFinished(j)
       \/ EngineExecutionError(j)

\* the call is resumed whenever it can go on and the engine runs every job
\* it accepted to an end; peers need not call and the engine need not close
\* the socket
SpecFair == Init /\ [][Next]_vars /\ WF_vars(CallNext) /\ WF_vars(EngineNext)

\* --------------------------------------------------------- cancellation
\* the caller cancels the task while it awaits queue_prompt (lines 441, 454,
\* 464, 474): CancelledError, a BaseException, is raised at the await.  The
\* handler of line 442 catches Exception only and lets it pass; the bare
\* except of line 455 catches it and submits the simple variant; lines 464
\* and 474 are inside no try
Cancel ==
    /\ pc \in QueueSites
    /\ ~cancelled
    /\ cancelled' = TRUE
    /\ IF pc = "queue_std_fb"
       THEN /\ queue_prompt(create_flux2_workflow_simple(seed),
                            "queue_simple_fb2")
            /\ UNCHANGED error
       ELSE /\ error' = Error("CancelledError", workflow.variant, 0)
            /\ pc' = "failed"
            /\ UNCHANGED <<workflow, submitted>>
    /\ UNCHANGED <<unitVars, ws_client_id, probeVars, inputVars, flagVars,
                   workflow_type, firstError, prompt_id, engineVars,
                   monitorVars, fetchVars>>

NextCancel ==
    \/ Next
    \/ Cancel

SpecCancel == Init /\ [][NextCancel]_vars

\* ------------------------------------------------- a changing catalog
\* nodes are installed in or removed from the engine: /object_info lists
\* another catalog from now on
CatalogChange ==
    /\ engineNodes' \in (SUBSET NodeTypes) \ {engineNodes}
    /\ UNCHANGED <<unitVars, ghostVars, available_nodes, peerFetching, pc,
                   inputVars, flagVars, cascadeVars, prompt_id, error,
                   engineVars, monitorVars, fetchVars>>

NextCatalog ==
    \/ Next
    \/ CatalogChange

SpecCatalog == Init /\ [][NextCatalog]_vars

\* ============================================== check_connection, builders
\* the answers /system_stats is given here, and the ways the request fails
Statuses == {200, 204, 404, 500}
Response(st) == [kind |-> "response", status |-> st]
Failure(k) == [kind |-> k, status |-> 0]
RequestFailures == {"network error", "timeout"}

\* line 24: check_connection is called and sends GET /system_stats with a
\* total timeout of 5 s
CheckConnection ==
    /\ check.pc \in {"idle", "returned"}
    /\ check' = [pc |-> "waiting", outcome |-> NoOutcome, returned |-> FALSE]
    /\ UNCHANGED <<built, generateVars, routeVars, serverVars>>

\* as CheckResult, accepting every status below 400
CheckResult_AnySuccess(status) == status < 400

\* line 27: the value returned for an answer
CheckResult(status) == status = 200

\* lines 26-27: the request is answered with some status
SystemStatsAnswered ==
    /\ check.pc = "waiting"
    /\ \E st \in Statuses :
          check' = [pc |-> "returned", outcome |-> Response(st),
                    returned |-> CheckResult(st)]
    /\ UNCHANGED <<built, generateVars, routeVars, serverVars>>

\* lines 28-29: the request raises (connection refused, the 5 s are over);
\* both are subclasses of Exception and False is returned
SystemStatsFailed ==
    /\ check.pc = "waiting"
    /\ \E k \in RequestFailures :
          check' = [pc |-> "returned", outcome |-> Failure(k),
                    returned |-> FALSE]
    /\ UNCHANGED <<built, generateVars, routeVars, serverVars>>

\* the arguments the builders are called with here
MaxBuilds == 2
Prompts == {"a cat"}
Widths == {1024}
Heights == {768, 1024}
StepCounts == {20}
Guidances == {"3.5"}
NoSeed == [given |-> FALSE, value |-> 0]
Seed(v) == [given |-> TRUE, value |-> v]
BuildArgs == [prompt : Prompts, width : Widths, height : Heights,
              steps : StepCounts, guidance : Guidances,
              seed : {NoSeed} \cup {Seed(v) : v \in Seeds}]

\* a node of a workflow graph: its class, its reference inputs
\* [node name, output index] and its literal inputs
Node(c, r, l) == [class_type |-> c, refs |-> r, literals |-> l]
NoInputs == [i \in {} |-> <<>>]

\* as ResolveSeed, drawing a seed whatever was passed
ResolveSeed_AlwaysRandom(sd) == Seeds

\* lines 66-67, 167-168, 265-266: the seeds a builder may use for the seed
\* argument sd; an unset seed is drawn at random
ResolveSeed(sd) == IF sd.given THEN {sd.value} ELSE Seeds

\* the nodes the three builders spell alike: encoders, latent, decode, save
SharedNodes(a, clip_name) ==
    [load_clip |-> Node("CLIPLoader", NoInputs,
                        [clip_name |-> clip_name, type |-> "flux2"]),
     load_vae |-> Node("VAELoader", NoInputs,
                       [vae_name |-> "flux2-vae.safetensors"]),
     clip_encode |-> Node("CLIPTextEncode", [clip |-> <<"load_clip", 0>>],
                          [text |-> a.prompt]),
     clip_encode_negative |->
         Node("CLIPTextEncode", [clip |-> <<"load_clip", 0>>],
              [text |-> ""]),
     empty_latent |-> Node("EmptySD3LatentImage", NoInputs,
                           [width |-> a.width, height |-> a.height,
                            batch_size |-> 1]),
     vae_decode |-> Node("VAEDecode",
                         [samples |-> <<"sampler", 0>>,
                          vae |-> <<"load_vae", 0>>], NoInputs),
     save_image |-> Node("SaveImage", [images |-> <<"vae_decode", 0>>],
                         [filename_prefix |-> "flux_gen"])]

\* as SamplerNode, the negative conditioning wired to the positive encode
SamplerNode_NoNegative(a, model) ==
    Node("KSampler",
         [model |-> <<model, 0>>, positive |-> <<"clip_encode", 0>>,
          negative |-> <<"clip_encode", 0>>,
          latent_image |-> <<"empty_latent", 0>>],
         [seed |-> a.seed, steps |-> a.steps, cfg |-> a.guidance,
          sampler_name |-> "euler", scheduler |-> "simple",
          denoise |-> "1.0"])

\* the KSampler node, taking its model from node `model`
SamplerNode(a, model) ==
    Node("KSampler",
         [model |-> <<model, 0>>, positive |-> <<"clip_encode", 0>>,
          negative |-> <<"clip_encode_negative", 0>>,
          latent_image |-> <<"empty_latent", 0>>],
         [seed |-> a.seed, steps |-> a.steps, cfg |-> a.guidance,
          sampler_name |-> "euler", scheduler |-> "simple",
          denoise |-> "1.0"])

\* the ModelSamplingFlux node, taking its model from node `model`
ModelSamplingNode(a, model) ==
    Node("ModelSamplingFlux", [model |-> <<model, 0>>],
         [max_shift |-> "1.15", base_shift |-> "0.5", width |-> a.width,
          height |-> a.height])

\* lines 71-155: the graph of create_flux2_workflow for the arguments a,
\* the seed resolved
create_flux2_workflow_graph(a) ==
    [load_unet |-> Node("UNETLoader", NoInputs,
                        [unet_name |-> "flux2_dev_fp8mixed.safetensors",
                         weight_dtype |-> "fp8_e4m3fn"]),
     model_sampling |-> ModelSamplingNode(a, "load_unet"),
     sampler |-> SamplerNode(a, "model_sampling")]
    @@ SharedNodes(a, "mistral_3_small_flux2_fp8.safetensors")

\* lines 170-254: the graph of create_flux2_workflow_gguf
create_flux2_workflow_gguf_graph(a) ==
    [load_unet_gguf |-> Node("UnetLoaderGGUF", NoInputs,
                             [unet_name |-> "flux2-dev-Q5_K_M.gguf"]),
     model_sampling |-> ModelSamplingNode(a, "load_unet_gguf"),
     sampler |-> SamplerNode(a, "model_sampling")]
    @@ SharedNodes(a, "mistral_3_small_flux2_bf16.safetensors")

\* as create_flux2_workflow_simple_graph, the sampler still wired to the
\* model_sampling node that this variant leaves out
create_flux2_workflow_simple_graph_Dangling(a) ==
    [load_unet |-> Node("UNETLoader", NoInputs,
                        [unet_name |-> "flux2_dev_fp8mixed.safetensors",
                         weight_dtype |-> "fp8_e4m3fn"]),
     sampler |-> SamplerNode(a, "model_sampling")]
    @@ SharedNodes(a, "mistral_3_small_flux2_fp8.safetensors")

\* lines 268-344: the graph of create_flux2_workflow_simple
create_flux2_workflow_simple_graph(a) ==
    [load_unet |-> Node("UNETLoader", NoInputs,
                        [unet_name |-> "flux2_dev_fp8mixed.safetensors",
                         weight_dtype |-> "fp8_e4m3fn"]),
     sampler |-> SamplerNode(a, "load_unet")]
    @@ SharedNodes(a, "mistral_3_small_flux2_fp8.safetensors")

Builders == {"create_flux2_workflow", "create_flux2_workflow_gguf",
             "create_flux2_workflow_simple"}

\* the graph builder b returns for the arguments a, the seed resolved
GraphOf(b, a) ==
    CASE b = "create_flux2_workflow" -> create_flux2_workflow_graph(a)
      [] b = "create_flux2_workflow_gguf" ->
             create_flux2_workflow_gguf_graph(a)
      [] OTHER -> create_flux2_workflow_simple_graph(a)

\* lines 49-344: a builder is called and returns its graph
CallBuilder ==
    /\ Len(built) < MaxBuilds
    /\ \E b \in Builders, a \in BuildArgs :
          \E s \in ResolveSeed(a.seed) :
             built' = Append(built,
                             [builder |-> b, args |-> a,
                              workflow |->
                                  GraphOf(b, [a EXCEPT !.seed = s])])
    /\ UNCHANGED <<check, generateVars, routeVars, serverVars>>

\* a client on which check_connection and the builders are called
InitClient ==
    /\ Init
    /\ engineNodes = NodeTypes

NextClient ==
    \/ CheckConnection
    \/ SystemStatsAnswered
    \/ SystemStatsFailed
    \/ CallBuilder

SpecClient == InitClient /\ [][NextClient]_vars

\* ===================================================== the /generate route
\* an optional request field: left out, or given with a value
NotGiven == [given |-> FALSE, value |-> 0]
Given(v) == [given |-> TRUE, value |-> v]

\* main.py lines 65-84: steps and guidance of the presets; guidance is
\* written in tenths (3.5 is 35)
QUALITY_PRESETS ==
    [basic |-> [steps |-> 2, guidance |-> 30],
     mid |-> [steps |-> 4, guidance |-> 35],
     high |-> [steps |-> 8, guidance |-> 40]]

\* main.py line 205: QUALITY_PRESETS.get(name, QUALITY_PRESETS["mid"])
Preset(name) ==
    IF name \in DOMAIN QUALITY_PRESETS THEN QUALITY_PRESETS[name]
    ELSE QUALITY_PRESETS["mid"]

\* main.py lines 88-97: the requests the route is called with here
Requests ==
    [prompt : {"a cat"}, width : {1024}, height : {768},
     steps : {NotGiven, Given(20)}, guidance : {NotGiven, Given(75)},
     quality_preset : {"basic", "mid", "high", "ultra"},
     seed : {NotGiven, Given(0)}, enhance_prompt : BOOLEAN]

\* what the enhancement client returns for a prompt (openrouter.py lines
\* 91-97): a text of the model, another one than the prompt
Enhanced(prompt) ==
    IF prompt = "a cat" THEN "a tabby cat on a windowsill, soft light"
    ELSE "a detailed scene"

\* main.py lines 224-237: the arguments of client.generate_image
GenerateArguments(req, prompt) ==
    [prompt |-> prompt, width |-> req.width, height |-> req.height,
     steps |-> IF req.steps.given THEN req.steps.value
               ELSE Preset(req.quality_preset).steps,
     guidance |-> IF req.guidance.given THEN req.guidance.value
                  ELSE Preset(req.quality_preset).guidance,
     seed |-> req.seed]

\* main.py lines 198-223: the route is called; it awaits the enhancement
\* when one is asked for and a key is configured, else the generation
RouteCalled ==
    /\ route_pc \in {"idle", "returned"}
    /\ \E req \in Requests :
          /\ request' = req
          /\ final_prompt' = req.prompt
          /\ enhanced_prompt' = None
          /\ enhancement' = "none"
          /\ response' = NoResponse
          /\ IF req.enhance_prompt /\ OPENROUTER_API_KEY # ""
             THEN /\ route_pc' = "enhance"
                  /\ generate_args' = NoArguments
             ELSE /\ route_pc' = "generate"
                  /\ generate_args' = GenerateArguments(req, req.prompt)
    /\ UNCHANGED <<OPENROUTER_API_KEY, clientVars, generateVars,
                   serverVars>>

\* main.py lines 214-219: the enhancement returns
EnhanceReturned ==
    /\ route_pc = "enhance"
    /\ enhanced_prompt' = Enhanced(request.prompt)
    /\ enhancement' = "returned"
    /\ final_prompt' = Enhanced(request.prompt)
    /\ generate_args' = GenerateArguments(request, Enhanced(request.prompt))
    /\ route_pc' = "generate"
    /\ UNCHANGED <<OPENROUTER_API_KEY, request, response, clientVars,
                   serverVars,
                   generateVars>>

\* as EnhanceFailed, the exception leaving the route as a failure response
EnhanceFailed_FailsRequest ==
    /\ route_pc = "enhance"
    /\ enhancement' = "raised"
    /\ response' = [success |-> FALSE, image_url |-> None,
                    original_prompt |-> request.prompt,
                    enhanced_prompt |-> None,
                    metadata |-> [k \in {} |-> 0],
                    error |-> "enhancement failed"]
    /\ route_pc' = "returned"
    /\ UNCHANGED <<OPENROUTER_API_KEY, request, enhanced_prompt,
                   final_prompt, generate_args, clientVars, generateVars,
                   serverVars>>

\* main.py lines 220-222: the enhancement raises an Exception (openrouter.py
\* line 89, a transport error, a timeout, an answer without choices); the
\* original prompt is used
EnhanceFailed ==
    /\ route_pc = "enhance"
    /\ enhancement' = "raised"
    /\ generate_args' = GenerateArguments(request, final_prompt)
    /\ route_pc' = "generate"
    /\ UNCHANGED <<OPENROUTER_API_KEY, request, enhanced_prompt,
                   final_prompt, response, clientVars, generateVars,
                   serverVars>>

\* mflux_client.py lines 76-85 and main.py lines 250-257: the metadata of
\* a successful generation with arguments a and the seed sd used
FullMetadata(a, sd, req, enhanced) ==
    [prompt |-> a.prompt, width |-> a.width, height |-> a.height,
     steps |-> a.steps, guidance |-> a.guidance, seed |-> sd,
     original_prompt |-> req.prompt, enhanced_prompt |-> enhanced,
     quality_preset |-> req.quality_preset]

\* main.py line 278: metadata={}
EmptyMetadata == [k \in {} |-> 0]

\* main.py lines 230-271: the generation returns, the files are written
\* and the success response is returned
GenerateReturned ==
    /\ route_pc = "generate"
    /\ \E sd \in (IF request.seed.given THEN {request.seed.value}
                  ELSE Seeds) :
          response' =
              [success |-> TRUE, image_url |-> "/outputs/flux.png",
               original_prompt |-> request.prompt,
               enhanced_prompt |-> enhanced_prompt,
               metadata |-> FullMetadata(generate_args, sd, request,
                                         enhanced_prompt),
               error |-> None]
    /\ route_pc' = "returned"
    /\ UNCHANGED <<OPENROUTER_API_KEY, request, enhanced_prompt,
                   enhancement, final_prompt, generate_args, clientVars,
                   generateVars, serverVars>>

\* the exceptions raised inside the try of main.py lines 224-271
RouteFailures == {"generation failed", "cannot write output file"}

\* main.py lines 273-280: the failure response
GenerateFailed ==
    /\ route_pc = "generate"
    /\ \E e \in RouteFailures :
          response' =
              [success |-> FALSE, image_url |-> None,
               original_prompt |-> request.prompt,
               enhanced_prompt |-> enhanced_prompt,
               metadata |-> EmptyMetadata,
               error |-> e]
    /\ route_pc' = "returned"
    /\ UNCHANGED <<OPENROUTER_API_KEY, request, enhanced_prompt,
                   enhancement, final_prompt, generate_args, clientVars,
                   generateVars, serverVars>>

\* the server with or without an OpenRouter key configured (main.py line 30)
InitRoute ==
    /\ engineNodes = NodeTypes
    /\ available_nodes = Unset
    /\ peerFetching = FALSE
    /\ pc = "idle"
    /\ seed = 0
    /\ progress_callback = FALSE
    /\ has_gguf_loader = FALSE
    /\ has_flux_sampling = FALSE
    /\ workflow_type = None
    /\ workflow = NoWorkflow
    /\ submitted = <<>>
    /\ firstError = NoError
    /\ prompt_id = 0
    /\ error = NoError
    /\ nJobs = 0
    /\ jobState = [j \in JobIds |-> "none"]
    /\ jobProgress = [j \in JobIds |-> 0]
    /\ inbox = <<>>
    /\ msg = NoMsg
    /\ callback_args = NoArgs
    /\ history_id = 0
    /\ history = NoAnswer
    /\ image_info = None
    /\ result = NoResult
    /\ ws_client_id = None
    /\ cancelled = FALSE
    /\ ClientIdle
    /\ OPENROUTER_API_KEY \in {"", "sk-or-key"}
    /\ request = NoRequest
    /\ route_pc = "idle"
    /\ enhanced_prompt = None
    /\ enhancement = "none"
    /\ final_prompt = None
    /\ generate_args = NoArguments
    /\ response = NoResponse
    /\ mflux_client = 0
    /\ instances = 0
    /\ self_model = [o \in Instances |-> 0]
    /\ executor = [o \in Instances |-> <<>>]
    /\ worker = [o \in Instances |-> IdleWorker]
    /\ calls = [r \in CallIds |-> NoCall]
    /\ flux1_built = 0
    /\ active_connections = [c \in ClientIds |-> 0]
    /\ sockets = [s \in SocketIds |-> NoSocket]

NextRoute ==
    \/ RouteCalled
    \/ EnhanceReturned
    \/ EnhanceFailed
    \/ GenerateReturned
    \/ GenerateFailed

SpecRoute == InitRoute /\ [][NextRoute]_vars

\* ------------------------------------------------------- MFluxClient
\* main.py lines 50-58 and 226-235, mflux_client.py: concurrent /generate
\* requests of one process.  The route is a coroutine of the one event
\* loop, so what it does between two awaits is one action; the generation
\* itself runs on the worker thread of self._executor
\* (ThreadPoolExecutor(max_workers=1), line 29), which takes the submitted
\* work one item at a time in the order of submission.

\* as get_mflux_client, without the test of line 56
get_mflux_client_AlwaysNew(current, made) == made + 1

\* main.py lines 53-58: the object the global holds after the call; made
\* is the number of MFluxClient objects constructed so far
get_mflux_client(current, made) ==
    IF current = 0 THEN made + 1 ELSE current

\* main.py lines 226-235, mflux_client.py lines 113-122: request r gets the
\* client and calls generate_image, which hands _generate_sync to the
\* executor of that client and awaits its future
GenerateCalled(r) ==
    /\ calls[r].pc = "idle"
    /\ LET c == get_mflux_client(mflux_client, instances) IN
          /\ mflux_client' = c
          /\ instances' = IF c > instances THEN c ELSE instances
          /\ executor' = [executor EXCEPT ![c] = Append(@, r)]
          /\ calls' = [calls EXCEPT ![r] = [pc |-> "awaiting",
                                            client |-> c,
                                            future |-> "pending",
                                            model |-> 0]]
    /\ UNCHANGED <<self_model, worker, flux1_built, wsVars, clientVars,
                   routeVars, generateVars>>

\* the worker thread of the executor of client o takes the next work item
\* and enters _generate_sync (line 44)
WorkerTakes(o) ==
    /\ worker[o].pc = "idle"
    /\ executor[o] # <<>>
    /\ worker' = [worker EXCEPT ![o] = [pc |-> "load_model",
                                        call |-> Head(executor[o])]]
    /\ executor' = [executor EXCEPT ![o] = Tail(@)]
    /\ UNCHANGED <<mflux_client, instances, self_model, calls, flux1_built,
                   wsVars, clientVars, routeVars, generateVars>>

\* the worker of client o is done with its item: the future of the call
\* gets the outcome
Resolved(o, outcome) ==
    /\ calls' = [calls EXCEPT ![worker[o].call].future = outcome]
    /\ worker' = [worker EXCEPT ![o] = IdleWorker]

\* lines 37-41 and 54: self._model is None, Flux1(...) returns the model
LoadModelConstructs(o) ==
    /\ worker[o].pc = "load_model"
    /\ self_model[o] = 0
    /\ flux1_built' = flux1_built + 1
    /\ self_model' = [self_model EXCEPT ![o] = flux1_built + 1]
    /\ calls' = [calls EXCEPT ![worker[o].call].model = flux1_built + 1]
    /\ worker' = [worker EXCEPT ![o].pc = "generate"]
    /\ UNCHANGED <<mflux_client, instances, executor, wsVars, clientVars,
                   routeVars, generateVars>>

\* lines 37-41: self._model is None and Flux1(...) raises (weights missing,
\* out of memory): self._model stays None and the exception is the outcome
LoadModelRaises(o) ==
    /\ worker[o].pc = "load_model"
    /\ self_model[o] = 0
    /\ Resolved(o, "exception")
    /\ UNCHANGED <<mflux_client, instances, self_model, executor,
                   flux1_built, wsVars, clientVars, routeVars, generateVars>>

\* lines 37 and 42: self._model is set and is returned as it is
LoadModelReuses(o) ==
    /\ worker[o].pc = "load_model"
    /\ self_model[o] # 0
    /\ calls' = [calls EXCEPT ![worker[o].call].model = self_model[o]]
    /\ worker' = [worker EXCEPT ![o].pc = "generate"]
    /\ UNCHANGED <<mflux_client, instances, self_model, executor,
                   flux1_built, wsVars, clientVars, routeVars, generateVars>>

\* lines 56-88: the generation ends, with the image or with an exception
GenerateSyncEnds(o) ==
    /\ worker[o].pc = "generate"
    /\ \E outcome \in {"result", "exception"} : Resolved(o, outcome)
    /\ UNCHANGED <<mflux_client, instances, self_model, executor,
                   flux1_built, wsVars, clientVars, routeVars, generateVars>>

\* lines 118-124: the await of request r ends with the outcome of its future
GenerateImageEnds(r) ==
    /\ calls[r].pc = "awaiting"
    /\ calls[r].future \in {"result", "exception"}
    /\ calls' = [calls EXCEPT ![r].pc = IF calls[r].future = "result"
                                        THEN "returned" ELSE "raised"]
    /\ UNCHANGED <<mflux_client, instances, self_model, executor, worker,
                   flux1_built, wsVars, clientVars, routeVars, generateVars>>

NextMflux ==
    \/ \E r \in CallIds : GenerateCalled(r)
    \/ \E r \in CallIds : GenerateImageEnds(r)
    \/ \E o \in Instances : WorkerTakes(o)
    \/ \E o \in Instances : LoadModelConstructs(o)
    \/ \E o \in Instances : LoadModelRaises(o)
    \/ \E o \in Instances : LoadModelReuses(o)
    \/ \E o \in Instances : GenerateSyncEnds(o)

\* the process has just started; nothing else of it is followed
InitServer ==
    /\ Init
    /\ engineNodes = NodeTypes
    /\ available_nodes = Unset

SpecMflux == InitServer /\ [][NextMflux]_vars

\* ------------------------------------------------- websocket_endpoint
\* main.py lines 327-338: each connection to /ws/{client_id} is one
\* coroutine of the event loop; it registers its socket under the client
\* id of the URL and unregisters that id when the socket disconnects.  The
\* texts a client sends are read and dropped (line 335) and change nothing.

\* lines 330-331: socket s connects with client id c and is accepted; its
\* socket is stored under c, over whatever was stored there
WsAccepted(s, c) ==
    /\ sockets[s].pc = "none"
    /\ sockets' = [sockets EXCEPT ![s] = [pc |-> "receive_text",
                                          client_id |-> c]]
    /\ active_connections' = [active_connections EXCEPT ![c] = s]
    /\ UNCHANGED <<mfluxVars, clientVars, routeVars, generateVars>>

\* lines 336-337: receive_text raises WebSocketDisconnect for socket s and
\* the entry of its client id is deleted; del raises KeyError when the
\* dict has no such key
WsDisconnected(s) ==
    /\ sockets[s].pc = "receive_text"
    /\ LET c == sockets[s].client_id IN
          IF active_connections[c] # 0
          THEN /\ active_connections' = [active_connections EXCEPT ![c] = 0]
               /\ sockets' = [sockets EXCEPT ![s].pc = "closed"]
          ELSE /\ sockets' = [sockets EXCEPT ![s].pc = "KeyError"]
               /\ UNCHANGED active_connections
    /\ UNCHANGED <<mfluxVars, clientVars, routeVars, generateVars>>

NextWs ==
    \/ \E s \in SocketIds, c \in ClientIds : WsAccepted(s, c)
    \/ \E s \in SocketIds : WsDisconnected(s)

SpecWs == InitServer /\ [][NextWs]_vars

\* ================================================================ claims
Rank(v) == CASE v = "gguf" -> 1 [] v = "standard" -> 2 [] OTHER -> 3
SubmittedVariants == {submitted[i].variant : i \in 1 .. Len(submitted)}
\* generate_image failed with the exception of a queue_prompt call
SubmissionFailed == pc = "failed" /\ error.at \in Variants
TerminalEvent(m) == m.type = "executing" /\ m.node = Null

\* C1: one call makes at most 3 queue_prompt calls; the variants it submits
\* are in the strict order gguf, standard, simple, none twice; standard is
\* submitted only when has_node answered that ModelSamplingFlux is in the
\* catalog, gguf only when it answered that UnetLoaderGGUF is.
C1_CascadeOrder ==
    /\ Len(submitted) <= 3
    /\ \A i, j \in 1 .. Len(submitted) :
          i < j => Rank(submitted[i].variant) < Rank(submitted[j].variant)
    /\ \A i \in 1 .. Len(submitted) : submitted[i].variant \in Variants
    /\ "standard" \in SubmittedVariants => has_flux_sampling
    /\ "gguf" \in SubmittedVariants => has_gguf_loader

\* all three variants were submitted and each submission failed
C1_Witness ==
    /\ SubmissionFailed
    /\ Len(submitted) = 3

\* C2: the submission that follows a failed one is standard after gguf when
\* sampling correction is available, simple after gguf otherwise, simple
\* after standard; the cascade gives up only after simple has failed.
C2_NextVariant ==
    /\ \A i \in 1 .. Len(submitted) - 1 :
          submitted[i + 1].variant =
             IF submitted[i].variant = "gguf" /\ has_flux_sampling
             THEN "standard"
             ELSE IF submitted[i].variant \in {"gguf", "standard"}
                  THEN "simple"
                  ELSE "none"
    /\ SubmissionFailed => submitted[Len(submitted)].variant = "simple"

\* both capabilities, the gguf graph answered with {error: ...}, standard
\* submitted next
C2_Witness ==
    /\ has_gguf_loader /\ has_flux_sampling
    /\ firstError = Error("rejected", "gguf", 0)
    /\ Len(submitted) = 2
    /\ submitted[2].variant = "standard"

\* C3: the first variant built and submitted is gguf when UnetLoaderGGUF is
\* available, standard when it is not and ModelSamplingFlux is, simple when
\* neither is, whatever the seed, the callback, the cache and the peers.
C3_FirstVariant ==
    Len(submitted) >= 1 =>
       /\ workflow_type = submitted[1].variant
       /\ has_gguf_loader => submitted[1].variant = "gguf"
       /\ ~has_gguf_loader /\ has_flux_sampling
             => submitted[1].variant = "standard"
       /\ ~has_gguf_loader /\ ~has_flux_sampling
             => submitted[1].variant = "simple"

\* gguf chosen with the quantized loader alone, for the largest seed
C3_Witness ==
    /\ Len(submitted) >= 1
    /\ has_gguf_loader /\ ~has_flux_sampling
    /\ submitted[1].variant = "gguf"
    /\ seed = MaxSeedValue

\* C4: once a queue_prompt call has returned a prompt_id, the call makes no
\* further queue_prompt call and keeps that id, whatever happens next; the
\* history is asked for that id only.
C4_Committed ==
    [][ /\ prompt_id # 0 => submitted' = submitted /\ prompt_id' = prompt_id
        /\ history_id' \in {0, prompt_id'} ]_vars

\* the committed job failed in execution and the call has ended
C4_Witness ==
    /\ prompt_id # 0
    /\ pc = "failed"
    /\ error.kind = "execution"

\* C5: when an execution_error message is read, the loop stops, the socket
\* is closed, generate_image fails with the execution error that carries
\* the detail of the message, and there is no submission, no history
\* request, no download and no result, then or later.
C5_ExecutionError ==
    [][ msg'.type = "execution_error" =>
          /\ pc' = "failed"
          /\ error' = Error("execution", "receiving", Detail(msg'.job))
          /\ inbox' = <<>>
          /\ submitted' = submitted
          /\ history_id' = 0
          /\ history' = NoAnswer
          /\ image_info' = None
          /\ result' = NoResult ]_vars

\* the execution_error of the call's own job was read after a progress
\* event, before any terminal event
C5_Witness ==
    /\ msg.type = "execution_error"
    /\ msg.job = prompt_id
    /\ callback_args.value > 0
    /\ pc = "failed"

\* C6: the events of a peer's job are never attributed to the call: the
\* loop is ended only by the terminal event or the execution_error of the
\* call's own prompt_id, and only progress events of its own job reach the
\* callback.
C6_NoCrossTalk ==
    /\ TerminalEvent(msg) \/ msg.type = "execution_error"
          => msg.job = prompt_id
    /\ callback_args.job \in {0, prompt_id}

\* C7: when executing with node = null is read, the loop is left, the
\* socket closed and the history asked for prompt_id; when the answer has
\* that id and the scan finds an image entry, the call goes on to download
\* the first entry of the first image list, and what it returns is the
\* bytes of that file with that file name.
C7_FirstImage(h) ==
    LET o == h.outputs
        n == CHOOSE i \in 1 .. Len(o) :
                /\ o[i].has_images
                /\ \A k \in 1 .. i - 1 : ~o[k].has_images
    IN o[n].images[1]

C7_HasImageEntry(h) ==
    /\ h.recorded
    /\ \E i \in 1 .. Len(h.outputs) :
          /\ h.outputs[i].has_images
          /\ h.outputs[i].images # <<>>
          /\ \A k \in 1 .. i - 1 : ~h.outputs[k].has_images

C8_FetchOnlyAfterTerminal ==
    history_id # 0 => TerminalEvent(msg)

\* C9: when every submission of the call failed, the call fails with the
\* error of its first failed submission.
C9_OriginalError ==
    SubmissionFailed => error = firstError

\* C10: when the history answer does not have prompt_id as a key, the call
\* fails with "no history found", downloads nothing, submits nothing more
\* and returns nothing.
C10_NoHistory ==
    [][ history'.answered /\ ~history'.recorded =>
          /\ pc' = "failed"
          /\ error' = Error("no history found", "get_history", 0)
          /\ image_info' = None
          /\ result' = NoResult
          /\ submitted' = submitted ]_vars

\* the terminal event of the call's job was read and the answer lacks the id
C10_Witness ==
    /\ TerminalEvent(msg) /\ msg.job = prompt_id
    /\ history = NotRecorded
    /\ pc = "failed"

\* C11: once /history has answered, a lookup that fails raises one of the
\* two result-missing errors ("no history found", "No image found in
\* output") and no other kind.  The code raises IndexError at line 512 when
\* the first node with an images entry has an empty list.
C11_ResultMissing ==
    (pc = "failed" /\ history.answered)
        => error.kind \in {"no history found", "no image found"}

\* C12: a failing /object_info fetch never raises out of has_node or the
\* variant selection of generate_image.  A body that decodes to null is
\* stored and returned (lines 39-40) and line 47 raises TypeError.
C12_ProbeFailureAbsorbed ==
    ~(pc = "failed" /\ error.at = "has_node")

\* C13: a call that has already been answered by get_available_nodes sends
\* no further /object_info request: generate_image never goes from the
\* answer of has_node at line 402 to a request under line 403.  A failed
\* fetch stores nothing (lines 41-42), so line 403 fetches again.
C13_FetchedOnce ==
    [][~(pc = "has_flux" /\ pc' = "fetch_flux")]_vars

\* C14: the cache never goes from one catalog value to a different one,
\* also when the engine's catalog changes between two concurrent first-time
\* fetches.  Every fetch that is answered assigns the cache at line 39.
C14_WrittenOnce ==
    [][(available_nodes # Unset /\ available_nodes' # Unset)
          => available_nodes' = available_nodes]_vars
C20_ConnectAfterAccept ==
    /\ pc \in {"ws_connect", "receiving"} => ws_client_id # None
    /\ ws_client_id # None =>
          /\ prompt_id \in 1 .. nJobs
          /\ jobState[prompt_id] # "none"
          /\ workflow = submitted[Len(submitted)]
          /\ ws_client_id = PromptPayload(workflow).client_id
          /\ ws_client_id = client_id
    /\ SubmissionFailed => ws_client_id = None
    /\ prompt_id = 0 => ws_client_id = None

C20_Witness ==
    /\ pc = "receiving"
    /\ Len(submitted) = 3
    /\ ws_client_id = client_id
    /\ prompt_id = nJobs
\* the nodes of graph g that other nodes take an input from
Referenced(g) ==
    UNION {{g[n].refs[i][1] : i \in DOMAIN g[n].refs} : n \in DOMAIN g}

SaveImageNodes(g) == {n \in DOMAIN g : g[n].class_type = "SaveImage"}

\* C15: every graph a builder returns has exactly one SaveImage node, no
\* node takes an input from it, and every reference input names a node of
\* the same graph.
C15_WellFormedGraph ==
    \A i \in 1 .. Len(built) :
       LET g == built[i].workflow IN
       /\ Cardinality(SaveImageNodes(g)) = 1
       /\ SaveImageNodes(g) \cap Referenced(g) = {}
       /\ Referenced(g) \subseteq DOMAIN g

C15_Witness ==
    /\ Len(built) = 2
    /\ built[1].builder = "create_flux2_workflow_gguf"
    /\ built[2].builder = "create_flux2_workflow_simple"
    /\ "model_sampling" \in Referenced(built[1].workflow)
    /\ "model_sampling" \notin DOMAIN built[2].workflow

\* C18: two calls of one builder with the same arguments and an explicit
\* seed return the same graph, whatever was called in between.
C18_SameArgsSameGraph ==
    \A i, j \in 1 .. Len(built) :
       (/\ built[i].builder = built[j].builder
        /\ built[i].args = built[j].args
        /\ built[i].args.seed.given)
           => built[i].workflow = built[j].workflow

C18_Witness ==
    /\ Len(built) = 2
    /\ built[1].builder = built[2].builder
    /\ built[1].args = built[2].args
    /\ built[1].args.seed.given
    /\ built[1].workflow.sampler.literals.seed = built[1].args.seed.value
    /\ check.pc = "returned"

\* C19: check_connection never raises; it returns True when /system_stats
\* was answered with status 200 and False for every other status and for
\* every failure of the request.
C19_CheckConnection ==
    /\ check.pc \in {"idle", "waiting", "returned"}
    /\ check.pc = "returned" =>
          (check.returned <=> check.outcome = Response(200))

C19_Witness ==
    /\ check.pc = "returned"
    /\ check.outcome = Response(204)
    /\ ~check.returned
\* C17: a failure response of the /generate route has success = false and
\* the error text, the original prompt, the enhanced prompt if one was
\* produced, and the generation parameters in its metadata.  The code
\* returns metadata={} (main.py line 278).
C17_FailureResponse ==
    (route_pc = "returned" /\ ~response.success) =>
        /\ response.error \in RouteFailures
        /\ response.original_prompt = request.prompt
        /\ response.enhanced_prompt = enhanced_prompt
        /\ {"width", "height", "steps", "guidance", "seed"}
              \subseteq DOMAIN response.metadata
\* a message that is neither terminal nor an error: progress, or executing
\* with a node
Intermediate(m) ==
    \/ m.type = "progress"
    \/ m.type = "executing" /\ m.node # Null

\* C21: reading a progress message or an executing message with a node
\* leaves the call in the receive loop with nothing submitted, fetched or
\* raised; a progress message is passed to the callback, with its value and
\* max, when a callback was given, and the callback is not called otherwise.
C21_FrameOfRunning ==
    [][(/\ pc = "receiving"
        /\ Len(inbox') < Len(inbox)
        /\ Intermediate(Head(inbox)))
          => /\ pc' = "receiving"
             /\ inbox' = Tail(inbox)
             /\ UNCHANGED <<cascadeVars, prompt_id, error, engineVars,
                            fetchVars, ws_client_id>>
             /\ IF Head(inbox).type = "progress" /\ progress_callback
                THEN /\ callback_args'.value = Head(inbox).value
                     /\ callback_args'.max = MaxProgress
                ELSE UNCHANGED callback_args]_vars

C21_Witness ==
    /\ pc = "receiving"
    /\ msg.type = "progress"
    /\ msg.value = 1
    /\ ~progress_callback
    /\ callback_args = NoArgs
\* the nodes on the model path to the sampler
ModelPathNodes == {"load_unet", "load_unet_gguf", "model_sampling"}

\* graph g without its model path: the other nodes, the sampler without
\* its model input
Rest(g) ==
    [n \in DOMAIN g \ ModelPathNodes |->
        IF n = "sampler"
        THEN [g[n] EXCEPT !.refs = [i \in DOMAIN g[n].refs \ {"model"} |->
                                       g[n].refs[i]]]
        ELSE g[n]]

\* Rest(g) without the checkpoint the CLIP loader names
RestButClipName(g) ==
    [Rest(g) EXCEPT !["load_clip"].literals.clip_name = "any"]

\* builds i and j were called with the same prompt, size, steps and
\* guidance and use the same seed
SameCall(i, j) ==
    /\ [built[i].args EXCEPT !.seed = NoSeed]
          = [built[j].args EXCEPT !.seed = NoSeed]
    /\ built[i].workflow.sampler.literals.seed
          = built[j].workflow.sampler.literals.seed

\* the model path of the graph g that builder b returned
ModelPathOf(b, g) ==
    IF b = "create_flux2_workflow_simple"
    THEN /\ \A n \in DOMAIN g : g[n].class_type # "ModelSamplingFlux"
         /\ g.sampler.refs.model = <<"load_unet", 0>>
         /\ g.load_unet.class_type = "UNETLoader"
    ELSE LET loader == IF b = "create_flux2_workflow_gguf"
                       THEN "load_unet_gguf" ELSE "load_unet"
         IN /\ g.sampler.refs.model = <<"model_sampling", 0>>
            /\ g.model_sampling.class_type = "ModelSamplingFlux"
            /\ g.model_sampling.refs.model = <<loader, 0>>
            /\ g[loader].class_type =
                  (IF b = "create_flux2_workflow_gguf"
                   THEN "UnetLoaderGGUF" ELSE "UNETLoader")

\* the tail of graph g built for the arguments a
TailOf(a, g) ==
    /\ g.clip_encode.class_type = "CLIPTextEncode"
    /\ g.clip_encode.literals.text = a.prompt
    /\ g.clip_encode_negative.class_type = "CLIPTextEncode"
    /\ g.clip_encode_negative.literals.text = ""
    /\ g.empty_latent.literals.width = a.width
    /\ g.empty_latent.literals.height = a.height
    /\ g.sampler.class_type = "KSampler"
    /\ g.sampler.refs.positive = <<"clip_encode", 0>>
    /\ g.sampler.refs.negative = <<"clip_encode_negative", 0>>
    /\ g.sampler.refs.latent_image = <<"empty_latent", 0>>
    /\ g.sampler.literals.seed \in ResolveSeed(a.seed)
    /\ g.sampler.literals.steps = a.steps
    /\ g.sampler.literals.cfg = a.guidance
    /\ g.vae_decode.refs.samples = <<"sampler", 0>>
    /\ g.save_image.refs.images = <<"vae_decode", 0>>

\* C22 as stated: the variants differ only in the model path to the
\* sampler, so two graphs built for the same call agree on everything
\* else.  The quantized variant also names another text-encoder checkpoint
\* (line 181 against lines 82 and 281).
C22_OnlyModelPath ==
    \A i, j \in 1 .. Len(built) :
       SameCall(i, j) => Rest(built[i].workflow) = Rest(built[j].workflow)

\* C22 as amended: the model path is the one of the variant, the tail is
\* wired as stated, and two graphs built for the same call agree on
\* everything but the model path and the checkpoint of the CLIP loader.
C22_ModelPathAndTail ==
    /\ \A i \in 1 .. Len(built) :
          /\ ModelPathOf(built[i].builder, built[i].workflow)
          /\ TailOf(built[i].args, built[i].workflow)
    /\ \A i, j \in 1 .. Len(built) :
          SameCall(i, j) =>
             RestButClipName(built[i].workflow)
                = RestButClipName(built[j].workflow)

C22_Witness ==
    /\ Len(built) = 2
    /\ built[1].builder = "create_flux2_workflow_gguf"
    /\ built[2].builder = "create_flux2_workflow"
    /\ SameCall(1, 2)
    /\ built[1].workflow.load_clip # built[2].workflow.load_clip
\* C23: once the engine has ended the job of the call (finished or
\* errored), the call eventually is out of the receive loop, also when the
\* job ended before the socket was connected.  A message sent before the
\* connection of line 480 is never delivered, and the loop of line 481 has
\* no timeout.
C23_LeavesLoop ==
    \A j \in JobIds :
       (prompt_id = j /\ jobState[j] \in {"finished", "errored"})
          ~> (pc \notin {"ws_connect", "receiving"})
\* the builder that lines 409-438, 445, 456 and 466 call for a variant
BuilderOf(v) ==
    CASE v = "gguf" -> "create_flux2_workflow_gguf"
      [] v = "standard" -> "create_flux2_workflow"
      [] OTHER -> "create_flux2_workflow_simple"

\* the node graph of a submitted workflow w: what its builder returns for
\* the arguments of the call and the seed of w
GraphSubmitted(w) ==
    GraphOf(BuilderOf(w.variant),
            [prompt |-> "a cat", width |-> 1024, height |-> 1024,
             steps |-> 20, guidance |-> "3.5", seed |-> w.seed])

\* C24: the seed of a call is resolved once, to a value in 0 .. 2^31-1 when
\* drawn: every graph the call submits has it in its sampler node, and the
\* returned metadata carry the seed of the accepted graph.
C24_OneSeed ==
    /\ pc # "idle" => seed \in 0 .. MaxSeedValue
    /\ \A i \in 1 .. Len(submitted) :
          GraphSubmitted(submitted[i]).sampler.literals.seed = seed
    /\ pc = "done" =>
          /\ result.seed = GraphSubmitted(workflow).sampler.literals.seed
          /\ workflow = submitted[Len(submitted)]

C24_Witness ==
    /\ pc = "done"
    /\ Len(submitted) = 3
    /\ seed = MaxSeedValue
    /\ result.seed = MaxSeedValue
\* the advanced node types a graph contains
AdvancedNodeTypes(g) == {g[n].class_type : n \in DOMAIN g} \cap NodeTypes

\* C25: while the cache holds a fetched catalog, every graph the call has
\* submitted contains only advanced node types that the catalog lists.
\* The quantized graph always has a ModelSamplingFlux node (lines 213-222)
\* and is selected on has_gguf_loader alone (line 409).
C25_OnlyListedNodes ==
    available_nodes # Unset =>
        \A i \in 1 .. Len(submitted) :
           AdvancedNodeTypes(GraphSubmitted(submitted[i]))
              \subseteq available_nodes.nodes
\* C26: a call cancelled while a submission was in flight has raised the
\* cancellation and is over, whichever of the three attempts was in flight;
\* it submits nothing more.  The bare except of line 455 absorbs a
\* cancellation of the standard fallback.
C26_CancellationPropagates ==
    cancelled => (pc = "failed" /\ error.kind = "CancelledError")
\* C27: however the /generate requests interleave, the process has
\* constructed at most one MFluxClient, at most one worker is inside
\* _generate_sync, at most one Flux1 object has been constructed, and every
\* generation that got a model got that one.
C27_OneClientOneModel ==
    /\ instances <= 1
    /\ Cardinality({o \in Instances : worker[o].pc # "idle"}) <= 1
    /\ flux1_built <= 1
    /\ \A r \in CallIds : calls[r].model \in {0, 1}
    /\ \A r \in CallIds : calls[r].client \in {0, 1}

\* a request has returned its image, a second is being generated with the
\* model the first one constructed, and a third waits in the executor
C27_Witness ==
    \E r, q, w \in CallIds :
        /\ calls[r].pc = "returned"
        /\ calls[q].future = "pending"
        /\ calls[q].client # 0
        /\ calls[w].client # 0
        /\ worker[calls[q].client] = [pc |-> "generate", call |-> q]
        /\ calls[q].model = calls[r].model
        /\ executor[calls[w].client] = <<w>>
\* C28: the enhancement is awaited only when the request asks for it and a
\* key is configured; when it raised, the route went on to the generation
\* with the user's prompt and the response has enhanced_prompt = null; when
\* it returned, its text is the prompt of the generation; original_prompt
\* is the user's text in both cases.
C28_EnhancementNeverFails ==
    /\ (route_pc = "enhance" \/ enhancement # "none") =>
          (request.enhance_prompt /\ OPENROUTER_API_KEY # "")
    /\ enhancement = "raised" =>
          /\ route_pc \in {"generate", "returned"}
          /\ generate_args.prompt = request.prompt
          /\ enhanced_prompt = None
    /\ enhancement = "returned" =>
          /\ generate_args.prompt = Enhanced(request.prompt)
          /\ enhanced_prompt = Enhanced(request.prompt)
    /\ (route_pc = "returned" /\ enhancement # "none") =>
          /\ response.original_prompt = request.prompt
          /\ response.enhanced_prompt = enhanced_prompt
          /\ response.success => response.metadata.prompt = generate_args.prompt

\* the enhancement raised and the request was answered with an image
C28_Witness ==
    /\ route_pc = "returned"
    /\ enhancement = "raised"
    /\ response.success
    /\ response.enhanced_prompt = None
\* C29: every entry of active_connections is the socket of a connection
\* that is still open, every client id with an open connection has an
\* entry, and no disconnect has raised.  Two connections with one client id
\* share one key: the disconnect of either deletes the entry of the other,
\* and the second disconnect finds no key.
C29_RegistryOfOpenSockets ==
    /\ \A c \in ClientIds :
          active_connections[c] # 0 =>
              sockets[active_connections[c]] =
                  [pc |-> "receive_text", client_id |-> c]
    /\ \A s \in SocketIds :
          sockets[s].pc = "receive_text" =>
              active_connections[sockets[s].client_id] # 0
    /\ \A s \in SocketIds : sockets[s].pc # "KeyError"
====
